---- MODULE Spec2Model ----
(***************************************************************************)
(* State-machine model of src/InteraccionAgentes.py: the TrafficModel, its *)
(* TrafficLightAgents and its CarAgents, stepped by the scheduler in       *)
(* insertion order (all lights, then all cars).                            *)
(*                                                                         *)
(* Conventions                                                             *)
(*  - a grid cell is a pair <<x, y>>, 0-based as in the source;            *)
(*  - Python's None (a path, a light, an ETA) is <<>> for a path and -1    *)
(*    for a light or an ETA; a path of None and a path of [] take the same *)
(*    branches everywhere the source reads them (truthiness tests only);   *)
(*  - happiness is an exact rational <<num, den>> in lowest terms, since   *)
(*    payoffs are fractions; floating-point rounding is not modelled;      *)
(*  - random.random() returns a value k / 2^53 with 0 <= k < 2^53, so a    *)
(*    comparison against p is modelled by the set of outcomes it can take; *)
(*  - display attributes (color, marker) are not part of the state.        *)
(***************************************************************************)
EXTENDS Integers, Sequences, FiniteSets, TLC

VARIABLES
    width,             \* TrafficModel.grid.width
    height,            \* TrafficModel.grid.height
    personality_type,  \* TrafficModel.personality_type
    lights,            \* row y |-> the TrafficLightAgent at <<width \div 2, y>>
    cars,              \* car index (creation order) |-> the CarAgent's fields
    turn,              \* position in the tick: 0 collect, then lights, cars, advance
    steps,             \* schedule.steps
    collected,         \* the last row the DataCollector sampled
    horizon,           \* the number of ticks the run is stepped for
    phase,             \* per light: how its current colour phase has gone (history)
    ev,                \* what the last agent step did (history, read by properties)
    twin               \* the other runs of a several-run scenario and the random streams

vars == <<width, height, personality_type, lights, cars, turn, steps, collected,
          horizon, phase, ev, twin>>

----------------------------------------------------------------------------
(* Bounds of the model *)

MaxWidth == 4
MaxHeight == 2
MaxCars == 1
MaxBase == 3
MaxDrawn == 2
MaxTicks == 5
DeepTicks == 13
PathWidth == 4
PathHeight == 2
PathBlockers == 2
TwinTicks == 1
NegHistory == 1
BufferRounds == 3

(* Program constants *)

MinWidth == 3
MinHeight == 1
BaseLo == 3
BaseHi == 8
MinGreenTime == 3
MaxGreenTime == 10
DetectionRadius == 1
LightDetectionRange == 3
RiskyCap == 10
PatienceCap == 8
DefaultWidth == 15
DefaultHeight == 5

\* The list random.choice draws a personality from, in the order of the source.
PersonalityList ==
    <<"cooperative", "aggressive", "cautious", "opportunistic", "reckless">>
Personalities == {PersonalityList[i] : i \in 1..5}
Strategies == {"yield", "push_through"}
NoLight == -1
NoEta == -1

----------------------------------------------------------------------------
(* Arithmetic helpers *)

Min2(a, b) == IF a <= b THEN a ELSE b
Max2(a, b) == IF a >= b THEN a ELSE b
Abs(a) == IF a < 0 THEN -a ELSE a

RECURSIVE Gcd(_, _)
Gcd(a, b) == IF b = 0 THEN a ELSE Gcd(b, a % b)

\* Rationals <<num, den>>, den > 0, in lowest terms.
Rat(n, d) ==
    LET g == Gcd(Abs(n), d)
    IN  IF n = 0 THEN <<0, 1>> ELSE <<n \div g, d \div g>>
RInt(n) == <<n, 1>>
RAdd(p, q) == Rat(p[1] * q[2] + q[1] * p[2], p[2] * q[2])
RMul(p, q) == Rat(p[1] * q[1], p[2] * q[2])
RLess(p, q) == p[1] * q[2] < q[1] * p[2]
RLeq(p, q) == p[1] * q[2] <= q[1] * p[2]
RMin(p, q) == IF RLeq(p, q) THEN p ELSE q
RMax(p, q) == IF RLeq(q, p) THEN p ELSE q
RPos(p) == p[1] > 0

\* The outcomes random.random() < p (p = n/d) can take.
DrawLess(n, d) == {b \in BOOLEAN : IF b THEN n > 0 ELSE n < d}
\* The outcomes random.random() > p (p = n/d) can take.
DrawGreater(n, d) == {b \in BOOLEAN : IF b THEN n < d ELSE n >= 0}

----------------------------------------------------------------------------
(* The grid *)

InGrid(w, h, pos) == 0 <= pos[1] /\ pos[1] < w /\ 0 <= pos[2] /\ pos[2] < h

\* create_traffic_lights: one light per lane in the middle column.
MiddleX(w) == w \div 2
LightPos(w, y) == <<MiddleX(w), y>>
HasLight(w, h, pos) == InGrid(w, h, pos) /\ pos[1] = MiddleX(w)

\* The cells in which the grid holds a car (MultiGrid contents, CarAgents only).
CarCells(cs) == {cs[c].pos : c \in DOMAIN cs}

----------------------------------------------------------------------------
(* CarAgent.get_neighbors, is_valid_position, find_path *)

\* Mutant of get_neighbors: the aggressive driver's lane-change moves are
\* left out.
get_neighbors_one_axis(w, h, personality, destination, pos) ==
    LET x == pos[1]
        y == pos[2]
        xmove == IF x < destination[1] THEN << <<x + 1, y>> >>
                 ELSE IF x > destination[1] THEN << <<x - 1, y>> >> ELSE <<>>
        ymove == IF y < destination[2] THEN << <<x, y + 1>> >>
                 ELSE IF y > destination[2] THEN << <<x, y - 1>> >> ELSE <<>>
        possible_moves ==
            IF personality = "aggressive" THEN xmove
            ELSE IF personality = "cautious" THEN ymove \o xmove
            ELSE << <<x + 1, y>>, <<x - 1, y>>, <<x, y + 1>>, <<x, y - 1>> >>
    IN  SelectSeq(possible_moves, LAMBDA p : InGrid(w, h, p))

get_neighbors(w, h, personality, destination, pos) ==
    LET x == pos[1]
        y == pos[2]
        xmove == IF x < destination[1] THEN << <<x + 1, y>> >>
                 ELSE IF x > destination[1] THEN << <<x - 1, y>> >> ELSE <<>>
        ymove == IF y < destination[2] THEN << <<x, y + 1>> >>
                 ELSE IF y > destination[2] THEN << <<x, y - 1>> >> ELSE <<>>
        possible_moves ==
            IF personality = "aggressive" THEN xmove \o ymove
            ELSE IF personality = "cautious" THEN ymove \o xmove
            ELSE << <<x + 1, y>>, <<x - 1, y>>, <<x, y + 1>>, <<x, y - 1>> >>
    IN  SelectSeq(possible_moves, LAMBDA p : InGrid(w, h, p))

is_valid_position(w, h, occupied, pos) ==
    InGrid(w, h, pos) /\ pos \notin occupied

\* One pass of the for loop over the neighbours of the path's last cell.
RECURSIVE Expand(_, _, _, _, _, _, _, _)
Expand(w, h, occupied, nb, i, path, frontier, visited) ==
    IF i > Len(nb) THEN [frontier |-> frontier, visited |-> visited]
    ELSE LET next_pos == nb[i] IN
         IF next_pos \in visited
         THEN Expand(w, h, occupied, nb, i + 1, path, frontier, visited)
         ELSE IF HasLight(w, h, next_pos) \/ is_valid_position(w, h, occupied, next_pos)
         THEN Expand(w, h, occupied, nb, i + 1, path,
                     Append(frontier, Append(path, next_pos)),
                     visited \cup {next_pos})
         ELSE Expand(w, h, occupied, nb, i + 1, path, frontier, visited)

RECURSIVE Search(_, _, _, _, _, _, _)
Search(w, h, occupied, personality, destination, frontier, visited) ==
    IF frontier = <<>> THEN <<>>
    ELSE LET path == Head(frontier)
             current == path[Len(path)]
         IN  IF current = destination THEN path
             ELSE LET r == Expand(w, h, occupied,
                                  get_neighbors(w, h, personality, destination, current),
                                  1, path, Tail(frontier), visited)
                  IN  Search(w, h, occupied, personality, destination,
                             r.frontier, r.visited)

\* find_path of a car at `position`; <<>> is None.
find_path(w, h, occupied, personality, position, destination) ==
    Search(w, h, occupied, personality, destination, << <<position>> >>, {position})

----------------------------------------------------------------------------
(* TrafficLightAgent *)

InitLight == [state |-> "yellow", timer |-> 0, approaching_cars |-> <<>>]

\* get_nearby_cars: the cars the grid holds within the detection radius.
get_nearby_cars(w, h, y, cs) ==
    {c \in DOMAIN cs :
        /\ InGrid(w, h, cs[c].pos)
        /\ Abs(cs[c].pos[1] - MiddleX(w)) <= DetectionRadius
        /\ Abs(cs[c].pos[2] - y) <= DetectionRadius}

\* The number of path elements before the first one equal to `target`
\* (the whole length when there is none).
RECURSIVE StepsTo(_, _, _)
StepsTo(path, target, i) ==
    IF i > Len(path) THEN Len(path)
    ELSE IF path[i] = target THEN i - 1
    ELSE StepsTo(path, target, i + 1)

Infinity == 1000000

\* calculate_eta: float('inf') only for a car without a path.
calculate_eta(w, y, car) ==
    IF car.path # <<>> THEN StepsTo(car.path, LightPos(w, y), 1) ELSE Infinity

MinEta(approaching) ==
    CHOOSE m \in {approaching[c].eta : c \in DOMAIN approaching} :
        \A c \in DOMAIN approaching : m <= approaching[c].eta

\* update_traffic_schedule with its tests as parameters: whether a red light
\* may turn green, the eta and the timer value that end yellow and green, the
\* timer value that ends red and whether the demand is tested there.
LightUpdateWith(w, h, y, light, cs, from_red, eta_max, green_max, red_min, demand_tested) ==
    LET nearby_cars == get_nearby_cars(w, h, y, cs)
        approaching ==
            [c \in {d \in nearby_cars : calculate_eta(w, y, cs[d]) # Infinity} |->
                [eta |-> calculate_eta(w, y, cs[c]), position |-> cs[c].position]]
        to_green == /\ DOMAIN approaching # {}
                    /\ (light.state = "yellow" \/ (from_red /\ light.state = "red"))
                    /\ MinEta(approaching) <= eta_max
        state1 == IF to_green THEN "green" ELSE light.state
        timer1 == IF to_green THEN 0 ELSE light.timer
        red_over == /\ timer1 + 1 >= red_min
                    /\ (demand_tested => DOMAIN approaching = {})
    IN  IF nearby_cars = {}
        THEN [light EXCEPT !.state = "yellow", !.approaching_cars = <<>>]
        ELSE IF state1 = "green"
        THEN IF timer1 + 1 >= green_max
             THEN [state |-> "red", timer |-> 0, approaching_cars |-> approaching]
             ELSE [state |-> "green", timer |-> timer1 + 1, approaching_cars |-> approaching]
        ELSE IF state1 = "red"
        THEN IF red_over
             THEN [state |-> "yellow", timer |-> 0, approaching_cars |-> approaching]
             ELSE [state |-> "red", timer |-> timer1 + 1, approaching_cars |-> approaching]
        ELSE [state |-> state1, timer |-> timer1, approaching_cars |-> approaching]

\* Mutant: "if self.approaching_cars and self.state != 'green'", so that a red
\* light may turn green.
update_traffic_schedule_from_red(w, h, y, light, cs) ==
    LightUpdateWith(w, h, y, light, cs, TRUE, DetectionRadius, MaxGreenTime,
                    MinGreenTime, TRUE)

\* Mutant: "if self.timer > self.max_green_time", the cap one tick late.
update_traffic_schedule_late_cap(w, h, y, light, cs) ==
    LightUpdateWith(w, h, y, light, cs, FALSE, DetectionRadius, MaxGreenTime + 1,
                    MinGreenTime, TRUE)

\* Mutant: the red branch returns to yellow without testing timer or demand.
update_traffic_schedule_red_one_tick(w, h, y, light, cs) ==
    LightUpdateWith(w, h, y, light, cs, FALSE, DetectionRadius, MaxGreenTime, 0, FALSE)

\* Mutant: "if self.timer >= self.min_green_time - 1", red one tick short.
update_traffic_schedule_short_red(w, h, y, light, cs) ==
    LightUpdateWith(w, h, y, light, cs, FALSE, DetectionRadius, MaxGreenTime,
                    MinGreenTime - 1, TRUE)

\* Mutant: "if min_eta < self.detection_radius", green only for a car already
\* on the light's cell.
update_traffic_schedule_strict_eta(w, h, y, light, cs) ==
    LightUpdateWith(w, h, y, light, cs, FALSE, DetectionRadius - 1, MaxGreenTime,
                    MinGreenTime, TRUE)

\* Mutant: "if min_eta <= self.detection_radius + 1", green one hop early.
update_traffic_schedule_wide_eta(w, h, y, light, cs) ==
    LightUpdateWith(w, h, y, light, cs, FALSE, DetectionRadius + 1, MaxGreenTime,
                    MinGreenTime, TRUE)

\* Mutant: "if self.timer >= self.min_green_time", the red branch returns to
\* yellow without testing the demand.
update_traffic_schedule_untested_demand(w, h, y, light, cs) ==
    LightUpdateWith(w, h, y, light, cs, FALSE, DetectionRadius, MaxGreenTime,
                    MinGreenTime, FALSE)

\* update_traffic_schedule of the light of row y.
update_traffic_schedule(w, h, y, light, cs) ==
    LET nearby_cars == get_nearby_cars(w, h, y, cs)
        approaching ==
            [c \in {d \in nearby_cars : calculate_eta(w, y, cs[d]) # Infinity} |->
                [eta |-> calculate_eta(w, y, cs[c]), position |-> cs[c].position]]
        toGreen == /\ DOMAIN approaching # {}
                   /\ light.state = "yellow"
                   /\ MinEta(approaching) <= DetectionRadius
        state1 == IF toGreen THEN "green" ELSE light.state
        timer1 == IF toGreen THEN 0 ELSE light.timer
    IN  IF nearby_cars = {}
        THEN [light EXCEPT !.state = "yellow", !.approaching_cars = <<>>]
        ELSE IF state1 = "green"
        THEN IF timer1 + 1 >= MaxGreenTime
             THEN [state |-> "red", timer |-> 0, approaching_cars |-> approaching]
             ELSE [state |-> "green", timer |-> timer1 + 1, approaching_cars |-> approaching]
        ELSE IF state1 = "red"
        THEN IF timer1 + 1 >= MinGreenTime /\ DOMAIN approaching = {}
             THEN [state |-> "yellow", timer |-> 0, approaching_cars |-> approaching]
             ELSE [state |-> "red", timer |-> timer1 + 1, approaching_cars |-> approaching]
        ELSE [state |-> state1, timer |-> timer1, approaching_cars |-> approaching]

----------------------------------------------------------------------------
(* CarAgent: construction *)

PatienceModifier(personality) ==
    CASE personality = "cooperative" -> 2
      [] personality = "aggressive" -> -2
      [] personality = "cautious" -> 3
      [] personality = "opportunistic" -> 0
      [] personality = "reckless" -> -3

\* get_initial_patience, for the base random.randint(3, 8) drew.
get_initial_patience(personality, base_patience) ==
    Max2(1, base_patience + PatienceModifier(personality))

\* CarAgent.__init__ followed by set_position_and_destination and place_agent.
\* `drawn` is the personality random.choice drew in __init__ (the one patience
\* is computed from); `personality` is the one the car keeps.
NewCar(w, h, occupied, drawn, personality, base_patience, start, dest) ==
    [position |-> start,
     pos |-> start,
     destination |-> dest,
     path |-> find_path(w, h, occupied, personality, start, dest),
     personality |-> personality,
     state |-> "normal",
     happiness |-> RInt(100),
     stress |-> 0,
     patience |-> get_initial_patience(drawn, base_patience),
     waiting_time |-> 0,
     risk_threshold |-> 50,
     learning_rate |-> 10,
     approaching_light |-> NoLight,
     eta_to_light |-> NoEta,
     successful_negotiations |-> 0,
     failed_negotiations |-> 0,
     traffic_patterns |-> <<>>,
     risky_moves_outcome |-> <<>>]

----------------------------------------------------------------------------
(* CarAgent: emotional state *)

\* update_state_parameters, as (learning_rate, risk_threshold) in hundredths.
update_state_parameters(a) ==
    IF a.state = "angry" THEN [a EXCEPT !.learning_rate = 20, !.risk_threshold = 70]
    ELSE IF a.state = "happy" THEN [a EXCEPT !.learning_rate = 5, !.risk_threshold = 30]
    ELSE [a EXCEPT !.learning_rate = 10, !.risk_threshold = 50]

\* Mutant of update_emotional_state: happy from happiness 80 on.
update_emotional_state_inclusive(a) ==
    LET stress_factor == IF a.personality = "aggressive" THEN 2 ELSE 1
        stress1 == Min2(100, Max2(0, a.stress + a.waiting_time * stress_factor))
        stress_decay == IF a.state = "happy" THEN 2 ELSE 1
        stress2 == Max2(0, stress1 - stress_decay)
        isHappy == RLeq(RInt(80), a.happiness) /\ stress2 < 30
        isAngry == RLess(a.happiness, RInt(30)) \/ stress2 > 70
        new_state == IF isHappy THEN "happy"
                     ELSE IF isAngry THEN "angry"
                     ELSE IF a.waiting_time > a.patience THEN "impatient"
                     ELSE "normal"
        patience1 == IF isHappy THEN Min2(PatienceCap, a.patience + 1)
                     ELSE IF isAngry THEN Max2(1, a.patience - 1)
                     ELSE a.patience
        b == [a EXCEPT !.stress = stress2, !.patience = patience1]
    IN  IF new_state # a.state
        THEN update_state_parameters([b EXCEPT !.state = new_state])
        ELSE b

update_emotional_state(a) ==
    LET stress_factor == IF a.personality = "aggressive" THEN 2 ELSE 1
        stress1 == Min2(100, Max2(0, a.stress + a.waiting_time * stress_factor))
        stress_decay == IF a.state = "happy" THEN 2 ELSE 1
        stress2 == Max2(0, stress1 - stress_decay)
        isHappy == RLess(RInt(80), a.happiness) /\ stress2 < 30
        isAngry == RLess(a.happiness, RInt(30)) \/ stress2 > 70
        new_state == IF isHappy THEN "happy"
                     ELSE IF isAngry THEN "angry"
                     ELSE IF a.waiting_time > a.patience THEN "impatient"
                     ELSE "normal"
        patience1 == IF isHappy THEN Min2(PatienceCap, a.patience + 1)
                     ELSE IF isAngry THEN Max2(1, a.patience - 1)
                     ELSE a.patience
        b == [a EXCEPT !.stress = stress2, !.patience = patience1]
    IN  IF new_state # a.state
        THEN update_state_parameters([b EXCEPT !.state = new_state])
        ELSE b

----------------------------------------------------------------------------
(* CarAgent: traffic light ahead *)

\* detect_traffic_light_ahead: the row of the first light at x+1 .. x+range in
\* the car's lane, NoLight when there is none.
detect_traffic_light_ahead(w, h, a) ==
    IF \E dx \in 1..LightDetectionRange :
          /\ a.position[1] + dx < w
          /\ HasLight(w, h, <<a.position[1] + dx, a.position[2]>>)
    THEN a.position[2]
    ELSE NoLight

calculate_eta_to_light(w, a, light) ==
    IF light = NoLight THEN NoEta ELSE Abs(MiddleX(w) - a.position[1])

\* notify_traffic_light. TrafficLightAgent defines no register_approaching_car,
\* so the hasattr test fails and the light is told nothing.
notify_traffic_light(w, h, a) ==
    LET light == detect_traffic_light_ahead(w, h, a)
    IN  IF light # NoLight /\ (a.approaching_light # light \/ a.eta_to_light = NoEta)
        THEN [a EXCEPT !.approaching_light = light,
                       !.eta_to_light = calculate_eta_to_light(w, a, light)]
        ELSE a

----------------------------------------------------------------------------
(* CarAgent: negotiation *)

PayoffMatrix(personality, my_strategy, other_strategy) ==
    LET yy == my_strategy = "yield" /\ other_strategy = "yield"
        yp == my_strategy = "yield" /\ other_strategy = "push_through"
        py == my_strategy = "push_through" /\ other_strategy = "yield"
    IN  CASE personality = "cooperative" ->
               IF yy THEN <<8, 8>> ELSE IF yp THEN <<2, 6>>
               ELSE IF py THEN <<6, 2>> ELSE <<-8, -8>>
          [] personality = "aggressive" ->
               IF yy THEN <<4, 4>> ELSE IF yp THEN <<-2, 12>>
               ELSE IF py THEN <<12, -2>> ELSE <<-4, -4>>
          [] personality = "cautious" ->
               IF yy THEN <<10, 10>> ELSE IF yp THEN <<5, 3>>
               ELSE IF py THEN <<3, 5>> ELSE <<-10, -10>>
          [] personality = "opportunistic" ->
               IF yy THEN <<6, 6>> ELSE IF yp THEN <<0, 8>>
               ELSE IF py THEN <<8, 0>> ELSE <<-6, -6>>
          [] personality = "reckless" ->
               IF yy THEN <<2, 2>> ELSE IF yp THEN <<-4, 14>>
               ELSE IF py THEN <<14, -4>> ELSE <<0, 0>>

\* The emotional-state multiplier of calculate_payoff.
StateModifier(state, my_strategy) ==
    IF state = "angry"
    THEN (IF my_strategy = "push_through" THEN Rat(3, 2) ELSE Rat(1, 2))
    ELSE IF state = "happy"
    THEN (IF my_strategy = "yield" THEN Rat(6, 5) ELSE Rat(4, 5))
    ELSE RInt(1)

\* 1 + 0.2 * success_rate
LearningModifier(a) ==
    LET total == Max2(1, a.successful_negotiations + a.failed_negotiations)
    IN  Rat(5 * total + a.successful_negotiations, 5 * total)

\* Mutant of calculate_payoff: the multiplier of the happy state is applied in
\* the normal state too.
calculate_payoff_normal_as_happy(a, my_strategy, other_strategy) ==
    LET base_payoff == RInt(PayoffMatrix(a.personality, my_strategy, other_strategy)[1])
        state == IF a.state = "normal" THEN "happy" ELSE a.state
    IN  RMul(RMul(base_payoff, StateModifier(state, my_strategy)), LearningModifier(a))

\* Mutant of calculate_payoff: the learning bonus 0.2 * success_rate is added
\* to the payoff instead of scaling it.
calculate_payoff_added_bonus(a, my_strategy, other_strategy) ==
    LET base_payoff == RInt(PayoffMatrix(a.personality, my_strategy, other_strategy)[1])
    IN  RAdd(RMul(base_payoff, StateModifier(a.state, my_strategy)),
             RAdd(LearningModifier(a), RInt(-1)))

calculate_payoff(a, my_strategy, other_strategy) ==
    LET base_payoff == RInt(PayoffMatrix(a.personality, my_strategy, other_strategy)[1])
    IN  RMul(RMul(base_payoff, StateModifier(a.state, my_strategy)), LearningModifier(a))

\* probs['push_through'] of get_strategy in thousandths, before the draw. The
\* two entries always sum to 1, so the normalisation divides by 1.
PushProbability(a) ==
    LET base == CASE a.personality = "cooperative" -> 300
                  [] a.personality = "aggressive" -> 800
                  [] a.personality = "cautious" -> 200
                  [] a.personality = "opportunistic" -> 500
                  [] a.personality = "reckless" -> 900
    IN  base + (IF a.state = "impatient" THEN 200 ELSE 0) + 3 * a.stress

\* The dictionary probs of get_strategy as the draw reads it: the base pair of
\* the personality, shifted by 0.2 when impatient and by 0.3 x stress / 100,
\* each entry divided by the sum of the two.
strategy_probabilities(a) ==
    LET base == CASE a.personality = "cooperative" -> 300
                  [] a.personality = "aggressive" -> 800
                  [] a.personality = "cautious" -> 200
                  [] a.personality = "opportunistic" -> 500
                  [] a.personality = "reckless" -> 900
        shift == (IF a.state = "impatient" THEN 200 ELSE 0) + 3 * a.stress
        push == base + shift
        yield == (1000 - base) - shift
        total == push + yield
    IN  [push_through |-> Rat(push, total), yield |-> Rat(yield, total)]

\* get_strategy: the strategies the call can return.
get_strategy(a) ==
    IF a.state = "angry" THEN {"push_through"}
    ELSE {IF lt THEN "push_through" ELSE "yield" : lt \in DrawLess(PushProbability(a), 1000)}

\* Mutant of negotiate_passage: happiness + payoff is stored unclamped.
negotiate_passage_unclamped(a, my_strategy, other_strategy) ==
    LET payoff == calculate_payoff(a, my_strategy, other_strategy)
        granted == RPos(payoff)
        risky1 == IF my_strategy = "push_through"
                  THEN Append(a.risky_moves_outcome, IF granted THEN 1 ELSE 0)
                  ELSE a.risky_moves_outcome
        risky2 == IF Len(risky1) > RiskyCap THEN Tail(risky1) ELSE risky1
    IN  [granted |-> granted,
         payoff |-> payoff,
         car |-> [a EXCEPT
            !.successful_negotiations = IF granted THEN @ + 1 ELSE @,
            !.failed_negotiations = IF granted THEN @ ELSE @ + 1,
            !.risky_moves_outcome = risky2,
            !.happiness = RAdd(a.happiness, payoff)]]

\* Mutant of negotiate_passage: a payoff of zero grants (payoff >= 0).
negotiate_passage_nonnegative(a, my_strategy, other_strategy) ==
    LET payoff == calculate_payoff(a, my_strategy, other_strategy)
        granted == ~RLess(payoff, RInt(0))
        risky1 == IF my_strategy = "push_through"
                  THEN Append(a.risky_moves_outcome, IF granted THEN 1 ELSE 0)
                  ELSE a.risky_moves_outcome
        risky2 == IF Len(risky1) > RiskyCap THEN Tail(risky1) ELSE risky1
    IN  [granted |-> granted,
         payoff |-> payoff,
         car |-> [a EXCEPT
            !.successful_negotiations = IF granted THEN @ + 1 ELSE @,
            !.failed_negotiations = IF granted THEN @ ELSE @ + 1,
            !.risky_moves_outcome = risky2,
            !.happiness = RMin(RInt(100), RMax(RInt(0), RAdd(a.happiness, payoff)))]]

\* negotiate_passage for the strategies drawn.
\* Mutant of negotiate_passage: the risky-move list is never trimmed.
negotiate_passage_untrimmed(a, my_strategy, other_strategy) ==
    LET payoff == calculate_payoff(a, my_strategy, other_strategy)
        granted == RPos(payoff)
        risky1 == IF my_strategy = "push_through"
                  THEN Append(a.risky_moves_outcome, IF granted THEN 1 ELSE 0)
                  ELSE a.risky_moves_outcome
    IN  [granted |-> granted,
         payoff |-> payoff,
         car |-> [a EXCEPT
            !.successful_negotiations = IF granted THEN @ + 1 ELSE @,
            !.failed_negotiations = IF granted THEN @ ELSE @ + 1,
            !.risky_moves_outcome = risky1,
            !.happiness = RMin(RInt(100), RMax(RInt(0), RAdd(a.happiness, payoff)))]]

negotiate_passage(a, my_strategy, other_strategy) ==
    LET payoff == calculate_payoff(a, my_strategy, other_strategy)
        granted == RPos(payoff)
        risky1 == IF my_strategy = "push_through"
                  THEN Append(a.risky_moves_outcome, IF granted THEN 1 ELSE 0)
                  ELSE a.risky_moves_outcome
        risky2 == IF Len(risky1) > RiskyCap THEN Tail(risky1) ELSE risky1
    IN  [granted |-> granted,
         payoff |-> payoff,
         car |-> [a EXCEPT
            !.successful_negotiations = IF granted THEN @ + 1 ELSE @,
            !.failed_negotiations = IF granted THEN @ ELSE @ + 1,
            !.risky_moves_outcome = risky2,
            !.happiness = RMin(RInt(100), RMax(RInt(0), RAdd(a.happiness, payoff)))]]

----------------------------------------------------------------------------
(* CarAgent: gates and movement *)

LightAt(w, ls, pos) == ls[pos[2]]

\* Whether can_move_to(pos) consults random.random().
can_move_draws(w, h, ls, cs, a, pos) ==
    /\ InGrid(w, h, pos)
    /\ pos \notin CarCells(cs)
    /\ HasLight(w, h, pos)
    /\ a.personality = "reckless"
    /\ LightAt(w, ls, pos).state \in {"red", "yellow"}

\* The outcomes of random.random() > risk_factor in can_move_to (TRUE where
\* the call draws nothing).
CanMoveOutcomes(w, h, ls, cs, a, pos) ==
    IF can_move_draws(w, h, ls, cs, a, pos)
    THEN IF LightAt(w, ls, pos).state = "red"
         THEN DrawGreater(a.stress, 100)
         ELSE DrawGreater(a.stress + 20, 100)
    ELSE {TRUE}

\* Mutant of can_move_to: the test for other cars is missing.
can_move_to_ignoring_cars(w, h, ls, cs, a, pos, above) ==
    IF ~InGrid(w, h, pos) THEN FALSE
    ELSE IF HasLight(w, h, pos)
    THEN IF a.personality = "reckless"
         THEN IF LightAt(w, ls, pos).state \in {"red", "yellow"} THEN ~above ELSE TRUE
         ELSE LightAt(w, ls, pos).state \notin {"red", "yellow"}
    ELSE TRUE

\* can_move_to, `above` being the outcome of random.random() > risk_factor.
can_move_to(w, h, ls, cs, a, pos, above) ==
    IF ~InGrid(w, h, pos) THEN FALSE
    ELSE IF pos \in CarCells(cs) THEN FALSE
    ELSE IF HasLight(w, h, pos)
    THEN IF a.personality = "reckless"
         THEN IF LightAt(w, ls, pos).state \in {"red", "yellow"} THEN ~above ELSE TRUE
         ELSE LightAt(w, ls, pos).state \notin {"red", "yellow"}
    ELSE TRUE

\* Mutant of NoPathPenalty: the penalty of handle_blocked_movement instead.
NoPathPenalty_as_blocked(a) ==
    [a EXCEPT !.waiting_time = @ + 1,
              !.happiness = RMax(RInt(0), RAdd(@, RInt(-3))),
              !.stress = Min2(100, @ + 2)]

\* The penalty of step when no path is found.
NoPathPenalty(a) ==
    [a EXCEPT !.waiting_time = @ + 1,
              !.happiness = RMax(RInt(0), RAdd(@, RInt(-5))),
              !.stress = Min2(100, @ + 3)]

\* The red branch of handle_traffic_light.
RedLightPenalty(a) ==
    [a EXCEPT !.waiting_time = @ + 1,
              !.happiness = RMax(RInt(0), RAdd(@, RInt(-5))),
              !.stress = @ + (IF a.personality = "aggressive" THEN 2 ELSE 1)]

\* The failure branch of handle_car_interaction.
NegotiationPenalty(a) ==
    [a EXCEPT !.waiting_time = @ + 1,
              !.happiness = RMax(RInt(0), RAdd(@, RInt(-3))),
              !.stress = Min2(100, @ + 2)]

\* The outcomes of random.random() < risk_chance at a yellow light.
YellowOutcomes(a) ==
    IF a.personality = "reckless" THEN DrawLess(Min2(80, a.stress + 30), 100)
    ELSE IF a.personality = "aggressive" THEN DrawLess(Min2(60, a.stress + 20), 100)
    ELSE {FALSE}

\* Mutant of update_position_metrics: the cell left is not popped off the path.
update_position_metrics_keeps_path(a, next_pos) ==
    [a EXCEPT !.pos = next_pos,
              !.position = next_pos,
              !.waiting_time = 0,
              !.happiness = RMin(RInt(100), RAdd(@, RInt(5))),
              !.stress = Max2(0, @ - 1)]

update_position_metrics(a, next_pos) ==
    LET b == [a EXCEPT !.pos = next_pos,
                       !.position = next_pos,
                       !.path = Tail(@),
                       !.waiting_time = 0,
                       !.happiness = RMin(RInt(100), RAdd(@, RInt(5))),
                       !.stress = Max2(0, @ - 1)]
    IN  \* self.position is already next_pos when the bonus is tested
        IF next_pos[1] > b.position[1]
        THEN [b EXCEPT !.happiness = RMin(RInt(100), RAdd(@, RInt(2)))]
        ELSE b

arrive_at_destination(a, now) ==
    LET b == [a EXCEPT !.happiness = RMin(RInt(100), RAdd(@, RInt(20))),
                       !.stress = Max2(0, @ - 10),
                       !.state = "happy"]
    IN  [b EXCEPT !.traffic_patterns =
            <<[path |-> b.path, time |-> now, stress_level |-> b.stress]>>]

\* Mutant of handle_blocked_movement: the wait is not counted.
handle_blocked_movement_uncounted(w, h, cs, a) ==
    LET b == [a EXCEPT !.happiness = RMax(RInt(0), RAdd(@, RInt(-3))),
                       !.stress = Min2(100, @ + 2)
                                  + (IF a.personality = "aggressive" THEN 2 ELSE 0)]
    IN  IF b.waiting_time > b.patience * 2
        THEN [b EXCEPT !.path = find_path(w, h, CarCells(cs), b.personality,
                                          b.position, b.destination)]
        ELSE b

handle_blocked_movement(w, h, cs, a) ==
    LET b == [a EXCEPT !.waiting_time = @ + 1,
                       !.happiness = RMax(RInt(0), RAdd(@, RInt(-3))),
                       !.stress = Min2(100, @ + 2)
                                  + (IF a.personality = "aggressive" THEN 2 ELSE 0)]
    IN  IF b.waiting_time > b.patience * 2
        THEN [b EXCEPT !.path = find_path(w, h, CarCells(cs), b.personality,
                                          b.position, b.destination)]
        ELSE b

\* The first car the grid holds in a cell, 0 when there is none.
CarIn(cs, pos) ==
    IF \E d \in DOMAIN cs : cs[d].pos = pos
    THEN CHOOSE d \in DOMAIN cs :
            cs[d].pos = pos /\ \A e \in DOMAIN cs : cs[e].pos = pos => d <= e
    ELSE 0

NoNegotiation ==
    [with |-> 0, my |-> "", other |-> "", granted |-> FALSE, payoff |-> RInt(0)]
Outcome(a, kind, next_pos, neg) == [car |-> a, kind |-> kind, next |-> next_pos, neg |-> neg]

\* Lines 585-593 of step: the move itself.
Commit(w, h, ls, cs, now, a, next_pos, neg) ==
    {IF can_move_to(w, h, ls, cs, a, next_pos, above)
     THEN LET b == update_position_metrics(a, next_pos)
          IN  IF b.position = b.destination
              THEN Outcome(arrive_at_destination(b, now), "arrived", next_pos, neg)
              ELSE Outcome(b, "moved", next_pos, neg)
     ELSE Outcome(handle_blocked_movement(w, h, cs, a), "blocked", next_pos, neg)
     : above \in CanMoveOutcomes(w, h, ls, cs, a, next_pos)}

\* handle_car_interaction and what follows it.
Interact(w, h, ls, cs, now, a, next_pos) ==
    LET other == CarIn(cs, next_pos)
    IN  IF other = 0 THEN Commit(w, h, ls, cs, now, a, next_pos, NoNegotiation)
        ELSE UNION {
            LET r == negotiate_passage(a, my, os)
                neg == [with |-> other, my |-> my, other |-> os, granted |-> r.granted,
                        payoff |-> r.payoff]
            IN  IF r.granted
                THEN Commit(w, h, ls, cs, now, r.car, next_pos, neg)
                ELSE {Outcome(NegotiationPenalty(r.car), "negotiation_failed", next_pos, neg)}
            : my \in get_strategy(a), os \in get_strategy(cs[other])}

\* Mutant of handle_traffic_light: a reckless car treats red as it treats
\* yellow.
handle_traffic_light_reckless_on_red(w, h, ls, a, next_pos) ==
    IF ~HasLight(w, h, next_pos) THEN {[pass |-> TRUE, car |-> a]}
    ELSE IF LightAt(w, ls, next_pos).state = "green" THEN {[pass |-> TRUE, car |-> a]}
    ELSE IF LightAt(w, ls, next_pos).state = "red" /\ a.personality # "reckless"
    THEN {[pass |-> FALSE, car |-> RedLightPenalty(a)]}
    ELSE {[pass |-> lt, car |-> a] : lt \in YellowOutcomes(a)}

\* handle_traffic_light(next_pos): every (result, car) the call can return.
handle_traffic_light(w, h, ls, a, next_pos) ==
    IF ~HasLight(w, h, next_pos) THEN {[pass |-> TRUE, car |-> a]}
    ELSE IF LightAt(w, ls, next_pos).state = "green" THEN {[pass |-> TRUE, car |-> a]}
    ELSE IF LightAt(w, ls, next_pos).state = "red"
    THEN {[pass |-> FALSE, car |-> RedLightPenalty(a)]}
    ELSE {[pass |-> lt, car |-> a] : lt \in YellowOutcomes(a)}

\* Lines 575-593 of step: the light gate, the negotiation, the move.
Gate(w, h, ls, cs, now, a) ==
    IF Len(a.path) <= 1 THEN {Outcome(a, "idle", <<>>, NoNegotiation)}
    ELSE LET next_pos == a.path[2] IN
         UNION {
            IF g.pass THEN Interact(w, h, ls, cs, now, g.car, next_pos)
            ELSE {Outcome(g.car,
                          IF LightAt(w, ls, next_pos).state = "red" THEN "red" ELSE "yellow",
                          next_pos, NoNegotiation)}
            : g \in handle_traffic_light(w, h, ls, a, next_pos)}

\* CarAgent.step: every outcome the step can have for the draws it makes.
car_step(w, h, ls, cs, now, c) ==
    LET a == notify_traffic_light(w, h, update_emotional_state(cs[c]))
        probes == IF Len(a.path) > 1
                  THEN CanMoveOutcomes(w, h, ls, cs, a, a.path[2]) ELSE {TRUE}
    IN  UNION {
          LET replan == \/ a.path = <<>>
                        \/ /\ Len(a.path) > 1
                           /\ ~can_move_to(w, h, ls, cs, a, a.path[2], above)
              new_path == find_path(w, h, CarCells(cs), a.personality,
                                    a.position, a.destination)
          IN  IF replan /\ new_path = <<>>
              THEN {Outcome(NoPathPenalty(a), "no_path", <<>>, NoNegotiation)}
              ELSE Gate(w, h, ls, cs, now,
                        IF replan THEN [a EXCEPT !.path = new_path] ELSE a)
          : above \in probes}

----------------------------------------------------------------------------
(* TrafficModel: metrics *)

RECURSIVE RSum(_, _)
RSum(f, S) ==
    IF S = {} THEN RInt(0)
    ELSE LET c == CHOOSE x \in S : TRUE IN RAdd(f[c], RSum(f, S \ {c}))

\* calculate_traffic_flow over the scheduled cars, as a rational.
calculate_traffic_flow(cs) ==
    IF DOMAIN cs = {} THEN RInt(0)
    ELSE Rat(Cardinality({c \in DOMAIN cs : cs[c].waiting_time = 0}),
             Cardinality(DOMAIN cs))

\* np.mean of the values of f over the scheduled cars ("nan" for none).
Mean(f, cs) ==
    IF DOMAIN cs = {} THEN "nan"
    ELSE RMul(RSum(f, DOMAIN cs), Rat(1, Cardinality(DOMAIN cs)))

\* The model reporters of setup_datacollection.
Collect(cs) ==
    [average_happiness |-> Mean([c \in DOMAIN cs |-> cs[c].happiness], cs),
     average_stress |-> Mean([c \in DOMAIN cs |-> RInt(cs[c].stress)], cs),
     traffic_flow |-> calculate_traffic_flow(cs),
     cars_moving_right |->
        Cardinality({c \in DOMAIN cs : cs[c].destination[1] > cs[c].position[1]}),
     cars_moving_left |->
        Cardinality({c \in DOMAIN cs : cs[c].destination[1] < cs[c].position[1]})]

----------------------------------------------------------------------------
(* TrafficModel: construction *)

\* A single run: no other run, no explicit random stream.
NoTwin == [mode |-> "single"]

NoEvent == [who |-> 0, kind |-> "constructed", from |-> <<>>, next |-> <<>>,
            neg |-> NoNegotiation, was |-> "", now |-> ""]

\* History of a light's current phase: the consecutive ticks it has ended in
\* its present state, and whether approaching_cars was non-empty at each of them.
InitPhase == [ticks |-> 0, demand |-> TRUE]
NextPhase(p, old, new) ==
    [ticks |-> IF new.state = old.state THEN p.ticks + 1 ELSE 1,
     demand |-> (IF new.state = old.state THEN p.demand ELSE TRUE)
                /\ DOMAIN new.approaching_cars # {}]

\* create_bidirectional_cars. n cars leave the west edge from the rows
\* `left`, then n cars leave the east edge from the rows `right`; each car is
\* routed before it is placed, around the cars placed before it.
PlaceCars(w, h, n, left, right, dest, drawn, kept, base) ==
    [c \in 1..(2 * n) |->
        LET start == IF c <= n THEN <<0, left[c]>> ELSE <<w - 1, right[c - n]>>
            end_pos == IF c <= n THEN <<w - 1, dest[c]>> ELSE <<0, dest[c]>>
            before == {IF d <= n THEN <<0, left[d]>> ELSE <<w - 1, right[d - n]>>
                       : d \in 1..(c - 1)}
        IN  NewCar(w, h, before, drawn[c], kept[c], base[c], start, end_pos)]

Injective(f) == \A i, j \in DOMAIN f : f[i] = f[j] => i = j

\* TrafficModel(width, height, num_cars_per_direction, personality_type) for
\* every outcome of the shuffles and draws of the construction.
Construct(w, h, requested, ptype, ticks, ndrawn) ==
    LET n == IF requested > h THEN h ELSE requested
    IN  \E left, right \in [1..n -> 0..(h - 1)] :
        \E dest \in [1..(2 * n) -> 0..(h - 1)] :
        \E drawn \in [1..(2 * n) -> {PersonalityList[i] : i \in 1..Min2(5, ndrawn)}] :
        \E base \in [1..(2 * n) -> BaseLo..Min2(BaseHi, MaxBase)] :
            /\ Injective(left)
            /\ Injective(right)
            /\ width = w
            /\ height = h
            /\ personality_type = ptype
            /\ lights = [y \in 0..(h - 1) |-> InitLight]
            /\ cars = PlaceCars(w, h, n, left, right, dest, drawn,
                                [c \in 1..(2 * n) |->
                                    IF ptype = "random" THEN drawn[c] ELSE ptype],
                                base)
            /\ turn = 0
            /\ steps = 0
            /\ collected = <<>>
            /\ horizon = ticks
            /\ phase = [y \in 0..(h - 1) |-> InitPhase]
            /\ ev = NoEvent
            /\ twin = NoTwin

\* Every construction within the bounds, stepped for MaxTicks ticks.
InitBroad ==
    \E w \in MinWidth..MaxWidth, h \in MinHeight..MaxHeight, requested \in 0..MaxCars,
       ptype \in Personalities \cup {"random"} :
        Construct(w, h, requested, ptype, MaxTicks, MaxDrawn)

\* The single-lane corridor of width 4 with one aggressive car per direction,
\* stepped for DeepTicks ticks.
InitDeep == Construct(MinWidth + 1, MinHeight, 1, "aggressive", DeepTicks, 1)

Init == InitBroad \/ InitDeep

----------------------------------------------------------------------------
(* TrafficModel.step: collect, then the scheduler steps every agent in the  *)
(* order of insertion (lights by row, then cars), then counts the step.     *)

NumLights == height
NumCars == Cardinality(DOMAIN cars)

\* datacollector.collect(self)
CollectData ==
    /\ turn = 0
    /\ steps < horizon
    /\ collected' = Collect(cars)
    /\ turn' = 1
    /\ ev' = [NoEvent EXCEPT !.kind = "collect"]
    /\ UNCHANGED <<width, height, personality_type, lights, cars, steps, horizon, twin, phase>>

\* TrafficLightAgent.step
LightStep(y) ==
    /\ turn = y + 1
    /\ lights' = [lights EXCEPT ![y] = update_traffic_schedule(width, height, y, @, cars)]
    /\ phase' = [phase EXCEPT ![y] = NextPhase(@, lights[y], lights'[y])]
    /\ turn' = turn + 1
    /\ ev' = [NoEvent EXCEPT !.kind = "light", !.who = y,
                             !.was = lights[y].state, !.now = lights'[y].state]
    /\ UNCHANGED <<width, height, personality_type, cars, steps, collected, horizon, twin>>

\* CarAgent.step
CarStep(c) ==
    /\ turn = NumLights + c
    /\ \E o \in car_step(width, height, lights, cars, steps, c) :
        /\ cars' = [cars EXCEPT ![c] = o.car]
        /\ ev' = [who |-> c, kind |-> o.kind, from |-> cars[c].pos, next |-> o.next,
                  neg |-> o.neg, was |-> cars[c].state, now |-> o.car.state]
    /\ turn' = turn + 1
    /\ UNCHANGED <<width, height, personality_type, lights, steps, collected, horizon, twin,
                   phase>>

\* The scheduler's end of step: steps += 1 (Agent.advance does nothing).
Advance ==
    /\ turn = NumLights + NumCars + 1
    /\ steps' = steps + 1
    /\ turn' = 0
    /\ ev' = [NoEvent EXCEPT !.kind = "advance"]
    /\ UNCHANGED <<width, height, personality_type, lights, cars, collected, horizon, twin,
                   phase>>

Next ==
    \/ CollectData
    \/ \E y \in 0..(height - 1) : LightStep(y)
    \/ \E c \in DOMAIN cars : CarStep(c)
    \/ Advance

Spec == Init /\ [][Next]_vars

----------------------------------------------------------------------------
(* Scenarios built with the constructors directly: a TrafficModel without   *)
(* cars (num_cars_per_direction = 0), then CarAgent, set_position_and_      *)
(* destination, grid.place_agent and schedule.add for each car.             *)

ScenarioWith(w, h, cs, ptype, ticks, companion) ==
    /\ width = w
    /\ height = h
    /\ personality_type = ptype
    /\ lights = [y \in 0..(h - 1) |-> InitLight]
    /\ cars = cs
    /\ turn = 0
    /\ steps = 0
    /\ collected = <<>>
    /\ horizon = ticks
    /\ phase = [y \in 0..(h - 1) |-> InitPhase]
    /\ ev = NoEvent
    /\ twin = companion

Scenario(w, h, cs, ptype, ticks) == ScenarioWith(w, h, cs, ptype, ticks, NoTwin)

\* The arrival scenario: the default grid, one car of any personality and
\* patience on the west edge of the middle row, bound for the east edge of
\* that row.
ArrivalStart == <<0, DefaultHeight \div 2>>
ArrivalEnd == <<DefaultWidth - 1, DefaultHeight \div 2>>
ArrivalTicks == DefaultWidth

InitArrival ==
    \E personality \in Personalities, drawn \in Personalities, base \in BaseLo..BaseHi :
        Scenario(DefaultWidth, DefaultHeight,
                 <<NewCar(DefaultWidth, DefaultHeight, {}, drawn, personality, base,
                          ArrivalStart, ArrivalEnd)>>,
                 personality, ArrivalTicks)

SpecArrival == InitArrival /\ [][Next]_vars

\* The held-light scenario, on two rows. In row 0 a car starts on the light's
\* cell, eastbound, and stops two cells further. In row 1 a westbound car next
\* to the light column (aggressive or cautious, so that it keeps to its row)
\* is bound for the cell before the west edge and finds no path until the car
\* ahead of it has reached the west edge, `hold` ticks later: for that long
\* it stands inside the window of the light of row 0. An optional last car
\* (any personality) drives east along row 0 and reaches the cell before the
\* light at the end of tick max_green_time - 1.
LaneHeight == MinHeight + 1
LaneHolds == (MaxGreenTime - 2)..(MaxGreenTime + MinGreenTime)
LaneTicks == MaxGreenTime + 2 * MinGreenTime
LaneWidth(hold) == 2 * (hold + 2)

LaneCars(hold, holder, facing) ==
    LET w == LaneWidth(hold)
        m == MiddleX(w)
        first == <<m, 0>>
        ahead == <<hold, 1>>
        held == <<m - 1, 1>>
        last == <<m - MaxGreenTime, 0>>
        base == <<NewCar(w, LaneHeight, {}, "cooperative", "cooperative", BaseLo,
                         first, <<m + 2, 0>>),
                  NewCar(w, LaneHeight, {first}, "aggressive", "aggressive", BaseLo,
                         ahead, <<0, 1>>),
                  NewCar(w, LaneHeight, {first, ahead}, holder, holder, BaseLo,
                         held, <<1, 1>>)>>
    IN  IF facing = "none" THEN base
        ELSE Append(base, NewCar(w, LaneHeight, {first, ahead, held}, facing, facing,
                                 BaseLo, last, <<w - 1, 0>>))

InitLane ==
    \E hold \in LaneHolds, holder \in {"aggressive", "cautious"},
       facing \in Personalities \cup {"none"} :
        Scenario(LaneWidth(hold), LaneHeight, LaneCars(hold, holder, facing),
                 "random", LaneTicks)

SpecLane == InitLane /\ [][Next]_vars

----------------------------------------------------------------------------
(* The planning scenario: a grid of any size within the bounds, one car of  *)
(* any personality placed on any cell and bound for any cell, then up to    *)
(* PathBlockers cars standing on cells of their own (each on its            *)
(* destination); PlanRoute is `car.path = car.find_path() or []` for the    *)
(* first car, as set_position_and_destination and step do it.               *)

Cells(w, h) == (0..(w - 1)) \X (0..(h - 1))
CellRank(h, pos) == pos[1] * h + pos[2]

InitPath ==
    \E w \in MinWidth..PathWidth, h \in MinHeight..PathHeight,
       personality \in Personalities, n \in 0..PathBlockers :
    \E start \in Cells(w, h), dest \in Cells(w, h) :
    \E blockers \in [1..n -> Cells(w, h) \ {start}] :
        /\ \A i, j \in 1..n : i < j => CellRank(h, blockers[i]) < CellRank(h, blockers[j])
        /\ Scenario(w, h,
                    <<NewCar(w, h, {}, personality, personality, BaseLo, start, dest)>>
                    \o [k \in 1..n |->
                          NewCar(w, h, {start} \cup {blockers[j] : j \in 1..(k - 1)},
                                 "cooperative", "cooperative", BaseLo,
                                 blockers[k], blockers[k])],
                    personality, 0)

PlanRoute(c) ==
    /\ horizon = 0
    /\ ev.kind = "constructed"
    /\ cars' = [cars EXCEPT ![c].path =
                    find_path(width, height, CarCells(cars), cars[c].personality,
                              cars[c].position, cars[c].destination)]
    /\ ev' = [NoEvent EXCEPT !.kind = "planned", !.who = c, !.from = cars[c].position]
    /\ UNCHANGED <<width, height, personality_type, lights, turn, steps, collected,
                   horizon, twin, phase>>

NextPath == PlanRoute(1)

SpecPath == InitPath /\ [][NextPath]_vars

----------------------------------------------------------------------------
(* Runs with the global random stream made explicit. The module `random`    *)
(* is one generator per process: CarAgent draws from it (random.choice,     *)
(* random.randint, random.random), while TrafficModel draws the placement   *)
(* from self.random, the generator a seed given to the model controls. A    *)
(* stream is the sequence of the values, in thousandths, that the coming    *)
(* calls of random.random() return. The cars of these scenarios are         *)
(* cooperative, cautious or opportunistic: their only draws while stepping  *)
(* are those of get_strategy.                                               *)

Calm == {"cooperative", "cautious", "opportunistic"}
StreamValues == {0, 999}
StreamLen == 4 * TwinTicks

\* The streams explored: the first negotiation draws a then b, every later
\* one c then d.
PairStream(len, a, b, c, d) ==
    [i \in 1..len |-> IF i = 1 THEN a ELSE IF i = 2 THEN b
                       ELSE IF i % 2 = 1 THEN c ELSE d]

\* get_strategy for the value u that random.random() returns.
strategy_for(a, u) ==
    IF a.state = "angry" THEN "push_through"
    ELSE IF u < PushProbability(a) THEN "push_through" ELSE "yield"

\* The outcome of CarAgent.step that the values u next in the stream select
\* among `outcomes`, for the car `a` as it negotiates: the car after the step
\* and the number of values consumed (get_strategy of the car, then of the
\* other car, each drawing unless the car is angry).
drawn_outcome(outcomes, a, cs, u) ==
    LET negotiated == \E o \in outcomes : o.neg.with # 0
        other == (CHOOSE o \in outcomes : o.neg.with # 0).neg.with
        mine == IF a.state = "angry" THEN 0 ELSE 1
        theirs == IF cs[other].state = "angry" THEN 0 ELSE 1
        my_strategy == strategy_for(a, u[1])
        other_strategy == strategy_for(cs[other], u[1 + mine])
    IN  IF negotiated
        THEN [car |-> (CHOOSE o \in outcomes :
                            o.neg.my = my_strategy /\ o.neg.other = other_strategy).car,
              used |-> mine + theirs]
        ELSE [car |-> (CHOOSE o \in outcomes : TRUE).car, used |-> 0]

\* The cars and the count of consumed values after the step of car c.
after_step(acc, c, r) ==
    [cars |-> [acc.cars EXCEPT ![c] = r.car], used |-> acc.used + r.used]

\* CarAgent.step of car c with the stream u, `acc.used` values of it consumed.
car_step_on(w, h, ls, acc, now, c, u) ==
    after_step(acc, c,
               drawn_outcome(car_step(w, h, ls, acc.cars, now, c),
                             notify_traffic_light(w, h, update_emotional_state(acc.cars[c])),
                             acc.cars,
                             SubSeq(u, acc.used + 1, Len(u))))

\* The scheduler's loop over the cars, from car c on.
RECURSIVE StepCars(_, _, _, _, _, _, _)
StepCars(w, h, ls, acc, now, c, u) ==
    IF c > Len(acc.cars) THEN acc
    ELSE StepCars(w, h, ls, car_step_on(w, h, ls, acc, now, c, u), now, c + 1, u)

\* The scheduler's loop over the cars in the order `order`, from its k-th
\* entry on.
RECURSIVE StepCarsIn(_, _, _, _, _, _, _, _)
StepCarsIn(w, h, ls, acc, now, order, k, u) ==
    IF k > Len(order) THEN acc
    ELSE StepCarsIn(w, h, ls, car_step_on(w, h, ls, acc, now, order[k], u), now,
                    order, k + 1, u)

\* A run: what TrafficModel.step reads and writes.
RunOf(ls, cs, n, col) == [lights |-> ls, cars |-> cs, steps |-> n, collected |-> col]
ThisRun == RunOf(lights, cars, steps, collected)

\* The run and the stream position at the end of a tick.
end_of_tick(run, ls, ptr, r) ==
    [run |-> RunOf(ls, r.cars, run.steps + 1, Collect(run.cars)), ptr |-> ptr + r.used]

\* The cars of a run stepped under the lights ls.
cars_stepped(w, h, run, ls, ptr, u) ==
    end_of_tick(run, ls, ptr, StepCars(w, h, ls, [cars |-> run.cars, used |-> 0],
                                       run.steps, 1, u))

\* TrafficModel.step of a run, the stream standing at `ptr`.
tick_on(w, h, run, stream, ptr) ==
    cars_stepped(w, h, run,
                 [y \in 0..(h - 1) |->
                     update_traffic_schedule(w, h, y, run.lights[y], run.cars)],
                 ptr,
                 SubSeq(stream, ptr, Len(stream)) \o [i \in 1..(2 * Len(run.cars)) |-> 0])

\* TrafficModel.step of a run whose scheduler activates the cars in the order
\* `order`.
tick_in_order(w, h, run, stream, ptr, order) ==
    end_of_tick(run,
                [y \in 0..(h - 1) |->
                    update_traffic_schedule(w, h, y, run.lights[y], run.cars)],
                ptr,
                StepCarsIn(w, h,
                           [y \in 0..(h - 1) |->
                               update_traffic_schedule(w, h, y, run.lights[y], run.cars)],
                           [cars |-> run.cars, used |-> 0], run.steps, order, 1,
                           SubSeq(stream, ptr, Len(stream))
                               \o [i \in 1..(2 * Len(run.cars)) |-> 0]))

\* The run t.run becomes the run held in the variables, the stream at t.ptr.
InstallThis(t) ==
    /\ steps < horizon
    /\ t.ptr <= Len(twin.stream) + 1
    /\ lights' = t.run.lights
    /\ cars' = t.run.cars
    /\ steps' = t.run.steps
    /\ collected' = t.run.collected
    /\ ev' = [NoEvent EXCEPT !.kind = "tick"]
    /\ twin' = [twin EXCEPT !.ptr = t.ptr]
    /\ UNCHANGED <<width, height, personality_type, turn, horizon, phase>>

\* model.step() of the run held in the variables.
StepThis == InstallThis(tick_on(width, height, ThisRun, twin.stream, twin.ptr))

\* t.run becomes the other run, whose stream `shared` tells whether it is the
\* first run's.
InstallOther(t, shared) ==
    /\ twin.other.steps < horizon
    /\ t.ptr <= Len(twin.stream) + 1
    /\ twin' = IF shared THEN [twin EXCEPT !.other = t.run, !.ptr = t.ptr]
               ELSE [twin EXCEPT !.other = t.run, !.other_ptr = t.ptr]
    /\ UNCHANGED <<width, height, personality_type, lights, cars, turn, steps,
                   collected, horizon, phase, ev>>

\* t.run becomes the run of the process where the first instance is alone.
InstallAlone(t) ==
    /\ twin.alone.steps < horizon
    /\ t.ptr <= Len(twin.stream) + 1
    /\ twin' = [twin EXCEPT !.alone = t.run, !.alone_ptr = t.ptr]
    /\ UNCHANGED <<width, height, personality_type, lights, cars, turn, steps,
                   collected, horizon, phase, ev>>

\* One placement of one car per direction on the rows `left` and `right`.
Placed(w, h, left, right, dest, drawn, ptype, base) ==
    PlaceCars(w, h, 1, left, right, dest, drawn,
              [c \in 1..2 |-> IF ptype = "random" THEN drawn[c] ELSE ptype], base)

\* Two runs of one configuration whose model generators are seeded alike (the
\* same rows and destinations), each in a process of its own: the draws of
\* CarAgent.__init__ and the streams are those of two global generators.
InitSeeded ==
    \E h \in MinHeight..(MinHeight + 1), ptype \in {"cooperative", "random"} :
    \E left, right \in [1..1 -> 0..(h - 1)], dest \in [1..2 -> 0..(h - 1)] :
    \E drawn, other_drawn \in [1..2 -> {"cooperative", "cautious"}] :
    \E a, b, c, d \in StreamValues :
        /\ ptype # "random" => (drawn = other_drawn /\ \A k \in 1..2 : drawn[k] = ptype)
        /\ ScenarioWith(MinWidth, h,
                    Placed(MinWidth, h, left, right, dest, drawn, ptype,
                           [k \in 1..2 |-> BaseLo]),
                    ptype, TwinTicks,
            [mode |-> "seeded",
             stream |-> PairStream(StreamLen, a, b, a, b),
             ptr |-> 1,
             other |-> RunOf([y \in 0..(h - 1) |-> InitLight],
                             Placed(MinWidth, h, left, right, dest, other_drawn, ptype,
                                    [k \in 1..2 |-> BaseLo]),
                             0, <<>>),
             other_stream |-> PairStream(StreamLen, c, d, c, d),
             other_ptr |-> 1,
             alone |-> <<>>,
             alone_ptr |-> 1,
             order |-> <<1, 2>>])

\* model.step() of the first run.
SeededStep ==
    /\ twin.mode = "seeded"
    /\ StepThis

\* model.step() of the second run.
SeededStepOther ==
    /\ twin.mode = "seeded"
    /\ InstallOther(tick_on(width, height, twin.other, twin.other_stream, twin.other_ptr),
                    FALSE)

NextSeeded == SeededStep \/ SeededStepOther
SpecSeeded == InitSeeded /\ [][NextSeeded]_vars
\* Two instances of one configuration and placement in one process, as
\* run_multiple_simulations builds them: both draw from the one global
\* stream. `alone` is the first instance stepped with no other instance in
\* the process, from the same stream.
InitShared ==
    \E h \in MinHeight..(MinHeight + 1), ptype \in Calm :
    \E left, right \in [1..1 -> 0..(h - 1)], dest \in [1..2 -> 0..(h - 1)] :
    \E a, b, c, d \in StreamValues :
        LET stream == PairStream(2 * StreamLen, a, b, c, d)
            cs == Placed(MinWidth, h, left, right, dest, [k \in 1..2 |-> ptype], ptype,
                         [k \in 1..2 |-> BaseLo])
            run == RunOf([y \in 0..(h - 1) |-> InitLight], cs, 0, <<>>)
        IN  ScenarioWith(MinWidth, h, cs, ptype, TwinTicks,
                [mode |-> "shared",
                 stream |-> stream,
                 ptr |-> 1,
                 other |-> run,
                 other_stream |-> stream,
                 other_ptr |-> 1,
                 alone |-> run,
                 alone_ptr |-> 1,
             order |-> <<1, 2>>])

\* model.step() of the first instance.
SharedStep ==
    /\ twin.mode = "shared"
    /\ StepThis

\* model.step() of the other instance: it consumes the same stream.
SharedStepOther ==
    /\ twin.mode = "shared"
    /\ InstallOther(tick_on(width, height, twin.other, twin.stream, twin.ptr), TRUE)

\* model.step() of the first instance in the process where it is alone.
AloneStep ==
    /\ twin.mode = "shared"
    /\ InstallAlone(tick_on(width, height, twin.alone, twin.stream, twin.alone_ptr))

NextShared == SharedStep \/ SharedStepOther \/ AloneStep
SpecShared == InitShared /\ [][NextShared]_vars

\* One configuration, placement and stream, run twice: by the scheduler as it
\* is (the cars in the order of their creation) and by a scheduler that
\* activates the cars in the order `order`.
InitOrder ==
    \E h \in MinHeight..(MinHeight + 1), ptype \in Calm :
    \E left, right \in [1..1 -> 0..(h - 1)], dest \in [1..2 -> 0..(h - 1)] :
    \E a, b \in StreamValues, order \in {<<1, 2>>, <<2, 1>>} :
        LET stream == PairStream(StreamLen, a, b, a, b)
            cs == Placed(MinWidth, h, left, right, dest, [k \in 1..2 |-> ptype], ptype,
                         [k \in 1..2 |-> BaseLo])
            run == RunOf([y \in 0..(h - 1) |-> InitLight], cs, 0, <<>>)
        IN  ScenarioWith(MinWidth, h, cs, ptype, TwinTicks,
                [mode |-> "order",
                 stream |-> stream,
                 ptr |-> 1,
                 other |-> run,
                 other_stream |-> stream,
                 other_ptr |-> 1,
                 alone |-> <<>>,
                 alone_ptr |-> 1,
                 order |-> order])

\* model.step() under the scheduler as it is.
OrderStep ==
    /\ twin.mode = "order"
    /\ StepThis

\* model.step() under the scheduler of the other order.
OrderStepOther ==
    /\ twin.mode = "order"
    /\ InstallOther(tick_in_order(width, height, twin.other, twin.other_stream,
                                  twin.other_ptr, twin.order),
                    FALSE)

NextOrder == OrderStep \/ OrderStepOther
SpecOrder == InitOrder /\ [][NextOrder]_vars

----------------------------------------------------------------------------
(* One negotiation. Two cars face each other across the light cell of the   *)
(* smallest grid; the first is as update_emotional_state leaves it at the   *)
(* start of its step, for a range of happiness, stress, waiting time and    *)
(* negotiation memory, and negotiates with the second.                      *)

NegHappiness == {0, 25, 60, 95, 100}
NegStress == {0, 40, 80}
NegWaiting == {0, 9}
FullBuffer == [i \in 1..RiskyCap |-> 0]

InitNegotiate ==
    \E personality, other_personality \in Personalities :
    \E happiness \in NegHappiness, stress, other_stress \in NegStress,
       waiting_time \in NegWaiting :
    \E won, lost \in 0..NegHistory, risky \in {<<>>, FullBuffer} :
        LET fresh == NewCar(MinWidth, MinHeight, {}, personality, personality, BaseLo,
                            <<0, 0>>, <<MinWidth - 1, 0>>)
            a == update_emotional_state(
                    [fresh EXCEPT !.happiness = RInt(happiness),
                                  !.stress = stress,
                                  !.waiting_time = waiting_time,
                                  !.successful_negotiations = won,
                                  !.failed_negotiations = lost,
                                  !.risky_moves_outcome = risky])
            met == NewCar(MinWidth, MinHeight, {}, other_personality, other_personality,
                          BaseLo, <<1, 0>>, <<0, 0>>)
            other == update_emotional_state([met EXCEPT !.stress = other_stress])
        IN  Scenario(MinWidth, MinHeight, <<a, other>>, personality, 0)

\* car.negotiate_passage(other_agent)
Negotiate ==
    /\ ev.kind = "constructed"
    /\ \E my \in get_strategy(cars[1]), os \in get_strategy(cars[2]) :
        LET r == negotiate_passage(cars[1], my, os)
        IN  /\ cars' = [cars EXCEPT ![1] = r.car]
            /\ ev' = [NoEvent EXCEPT !.kind = "negotiated", !.who = 1,
                                     !.neg = [with |-> 2, my |-> my, other |-> os,
                                              granted |-> r.granted, payoff |-> r.payoff]]
    /\ UNCHANGED <<width, height, personality_type, lights, turn, steps, collected,
                   horizon, twin, phase>>

NextNegotiate == Negotiate
SpecNegotiate == InitNegotiate /\ [][NextNegotiate]_vars

----------------------------------------------------------------------------
(* The constructor call. Before it returns or raises there is no light and  *)
(* no car; the pending call is the event "call", `who` holding its          *)
(* num_cars_per_direction argument. Of the constructions that succeed, the  *)
(* ones explored give every car the same destination row and the same       *)
(* drawn personality.                                                       *)

\* Mutant of dimensions_rejected: only the width is tested.
dimensions_rejected_width_only(w, h) == w < MinWidth

\* The two tests of TrafficModel.__init__ that raise ValueError.
dimensions_rejected(w, h) == w < MinWidth \/ h < MinHeight

InitCall ==
    \E w \in 0..MaxWidth, h \in 0..MaxHeight, requested \in 0..(MaxCars + 1),
       ptype \in Personalities \cup {"random"} :
        /\ width = w
        /\ height = h
        /\ personality_type = ptype
        /\ lights = <<>>
        /\ cars = <<>>
        /\ turn = 0
        /\ steps = 0
        /\ collected = <<>>
        /\ horizon = 0
        /\ phase = <<>>
        /\ ev = [NoEvent EXCEPT !.kind = "call", !.who = requested]
        /\ twin = NoTwin

\* TrafficModel(width, height, num_cars_per_direction, personality_type)
Build ==
    /\ ev.kind = "call"
    /\ IF dimensions_rejected(width, height)
       THEN /\ ev' = [ev EXCEPT !.kind = "ValueError"]
            /\ UNCHANGED <<lights, cars, phase>>
       ELSE LET n == IF ev.who > height THEN height ELSE ev.who
            IN  \E left, right \in [1..n -> 0..(height - 1)] :
                \E row \in 0..(IF n = 0 THEN 0 ELSE height - 1), choice \in 1..MaxDrawn :
                    /\ Injective(left)
                    /\ Injective(right)
                    /\ lights' = [y \in 0..(height - 1) |-> InitLight]
                    /\ cars' = PlaceCars(width, height, n, left, right,
                                         [c \in 1..(2 * n) |-> row],
                                         [c \in 1..(2 * n) |-> PersonalityList[choice]],
                                         [c \in 1..(2 * n) |->
                                             IF personality_type = "random"
                                             THEN PersonalityList[choice]
                                             ELSE personality_type],
                                         [c \in 1..(2 * n) |-> BaseLo])
                    /\ phase' = [y \in 0..(height - 1) |-> InitPhase]
                    /\ ev' = NoEvent
    /\ UNCHANGED <<width, height, personality_type, turn, steps, collected, horizon, twin>>

NextCall == Build
SpecCall == InitCall /\ [][NextCall]_vars

----------------------------------------------------------------------------
(* One call of update_emotional_state, on a car of any personality and      *)
(* emotional state, with happiness, stress and waiting time around the      *)
(* thresholds of the method and any initial patience.                       *)

EmotionStates == {"normal", "happy", "angry", "impatient"}
EmotionHappiness == {0, 29, 30, 80, 81, 100}
EmotionStress == {0, 28, 29, 30, 31, 32, 69, 70, 71, 72, 73, 99, 100}
EmotionWaiting == {0, 1, 6, 12}

InitEmotion ==
    \E personality \in Personalities, state \in EmotionStates :
    \E happiness \in EmotionHappiness, stress \in EmotionStress,
       waiting_time \in EmotionWaiting, base \in BaseLo..BaseHi :
        LET fresh == NewCar(MinWidth, MinHeight, {}, personality, personality, base,
                            <<0, 0>>, <<MinWidth - 1, 0>>)
            a == update_state_parameters(
                    [fresh EXCEPT !.state = state,
                                  !.happiness = RInt(happiness),
                                  !.stress = stress,
                                  !.waiting_time = waiting_time])
        IN  Scenario(MinWidth, MinHeight, <<a>>, personality, 0)

\* car.update_emotional_state()
Feel ==
    /\ ev.kind = "constructed"
    /\ cars' = [cars EXCEPT ![1] = update_emotional_state(cars[1])]
    /\ ev' = [NoEvent EXCEPT !.kind = "felt", !.who = 1,
                             !.was = cars[1].state, !.now = cars'[1].state]
    /\ UNCHANGED <<width, height, personality_type, lights, turn, steps, collected,
                   horizon, twin, phase>>

NextEmotion == Feel
SpecEmotion == InitEmotion /\ [][NextEmotion]_vars

----------------------------------------------------------------------------
(* A sequence of negotiations of one car, over several of its steps, with   *)
(* the same car on the light cell. The car starts with an empty memory or   *)
(* with a memory of nine or ten earlier push_through negotiations.          *)

BufferStarts ==
    {<<>>,
     [i \in 1..(RiskyCap - 1) |-> i % 2],
     [i \in 1..RiskyCap |-> IF i % 3 = 0 THEN 1 ELSE 0]}

Count(seq, v) == Cardinality({i \in DOMAIN seq : seq[i] = v})

InitBuffer ==
    \E personality, other_personality \in Personalities, risky \in BufferStarts :
        LET fresh == NewCar(MinWidth, MinHeight, {}, personality, personality, BaseLo,
                            <<0, 0>>, <<MinWidth - 1, 0>>)
            a == [fresh EXCEPT !.successful_negotiations = Count(risky, 1),
                               !.failed_negotiations = Count(risky, 0),
                               !.risky_moves_outcome = risky]
            other == NewCar(MinWidth, MinHeight, {}, other_personality, other_personality,
                            BaseLo, <<1, 0>>, <<0, 0>>)
        IN  Scenario(MinWidth, MinHeight, <<a, other>>, personality, BufferRounds)

\* update_emotional_state at the start of the car's step, then
\* negotiate_passage with the car ahead.
NegotiateAgain ==
    /\ steps < horizon
    /\ LET a == update_emotional_state(cars[1])
       IN  \E my \in get_strategy(a), os \in get_strategy(cars[2]) :
            LET r == negotiate_passage(a, my, os)
            IN  /\ cars' = [cars EXCEPT ![1] = r.car]
                /\ ev' = [NoEvent EXCEPT !.kind = "negotiated", !.who = 1,
                                         !.neg = [with |-> 2, my |-> my, other |-> os,
                                                  granted |-> r.granted,
                                                  payoff |-> r.payoff]]
    /\ steps' = steps + 1
    /\ UNCHANGED <<width, height, personality_type, lights, turn, collected,
                   horizon, twin, phase>>

NextBuffer == NegotiateAgain
SpecBuffer == InitBuffer /\ [][NextBuffer]_vars

----------------------------------------------------------------------------
(* Properties *)

EndOfTick == turn = 0

\* C1: mutual exclusion: no grid cell ever holds two cars, so at the end of
\* every tick (and at the instant of every committed move) each car is alone
\* in its cell.
C1_MutualExclusion ==
    \A c, d \in DOMAIN cars : c # d => cars[c].pos # cars[d].pos

\* A car won its negotiation and still found the cell occupied.
C1_Witness == ev.kind = "blocked" /\ ev.neg.with # 0 /\ ev.neg.granted

\* C2: at the end of every tick every car's stress is in [0,100].
C2_StressInRange ==
    EndOfTick => \A c \in DOMAIN cars : cars[c].stress >= 0 /\ cars[c].stress <= 100

\* C3: every car's happiness is in [0,100] (in every state, hence at the end of
\* every tick).
C3_HappinessInRange ==
    \A c \in DOMAIN cars :
        RLeq(RInt(0), cars[c].happiness) /\ RLeq(cars[c].happiness, RInt(100))

\* A car at happiness 100 has just won a negotiation, its happiness has been
\* held at 100 and the blocked move that followed has taken 3 from it.
C3_Witness ==
    /\ ev.kind = "blocked"
    /\ ev.neg.with # 0
    /\ ev.neg.granted
    /\ cars[ev.who].successful_negotiations = 1
    /\ cars[ev.who].failed_negotiations = 0
    /\ cars[ev.who].happiness = RInt(97)

C5_NoRedToGreen ==
    [][\A y \in DOMAIN lights :
          lights[y].state = "red" => lights'[y].state # "green"]_vars

\* A light has ended two consecutive ticks red.
C5_Witness == \E y \in DOMAIN lights : lights[y].state = "red" /\ phase[y].ticks >= 2

\* C6: a light ends at most MaxGreenTime consecutive ticks green: while green
\* its timer counts the ticks of the phase and stays below MaxGreenTime, the
\* update that would bring it there turning the light red.
C6_GreenCap ==
    \A y \in DOMAIN lights :
        lights[y].state = "green" =>
            /\ phase[y].ticks <= MaxGreenTime
            /\ lights[y].timer = phase[y].ticks
            /\ lights[y].timer < MaxGreenTime

\* A light has just been turned from green to red.
C6_Witness == ev.kind = "light" /\ ev.was = "green" /\ ev.now = "red"

\* C7 as stated: a light that leaves red has ended at least MinGreenTime
\* ticks red, whether or not a car is within its detection radius.
C7_MinimumRed ==
    [][\A y \in DOMAIN lights :
          (lights[y].state = "red" /\ lights'[y].state # "red")
          => phase[y].ticks >= MinGreenTime]_vars

\* C7, amended: the update of a red light with a car within its detection
\* radius keeps it red until it has ended MinGreenTime ticks red; the update
\* of a red light with no car within its detection radius returns it to
\* yellow at once.
C7_MinimumRedWhileDetected ==
    [][\A y \in DOMAIN lights :
          (turn = y + 1 /\ lights[y].state = "red")
          => IF get_nearby_cars(width, height, y, cars) = {}
             THEN lights'[y].state = "yellow"
             ELSE phase[y].ticks < MinGreenTime => lights'[y].state = "red"]_vars

\* A light has just left red with a car still within its detection radius.
C7_Witness ==
    /\ ev.kind = "light"
    /\ ev.was = "red"
    /\ ev.now = "yellow"
    /\ get_nearby_cars(width, height, ev.who, cars) # {}

\* C8: a red light whose approaching_cars table was non-empty at every update
\* of the red phase, the present one included, does not leave red before it
\* has been red for MinGreenTime ticks.
C8_RedUnderDemand ==
    [][\A y \in DOMAIN lights :
          (/\ lights[y].state = "red"
           /\ lights'[y].state # "red"
           /\ phase[y].demand
           /\ DOMAIN lights'[y].approaching_cars # {})
          => phase[y].ticks >= MinGreenTime]_vars

\* A light is red, with demand at each of the two updates of its red phase.
C8_Witness ==
    \E y \in DOMAIN lights :
        lights[y].state = "red" /\ phase[y].demand /\ phase[y].ticks >= 2

\* C9: a car whose position equals its destination is no longer on the grid nor
\* scheduled at the end of the tick.
C9_ArrivedRemoved ==
    EndOfTick => \A c \in DOMAIN cars : cars[c].position # cars[c].destination

\* C10: in the arrival scenario the car is on its destination at the end of
\* tick DefaultWidth - 1 (14) and at the end of no earlier tick, the lights
\* being green whenever the car faces them.
C10_ArrivalAfter14 ==
    /\ ev.kind \notin {"red", "yellow"}
    /\ EndOfTick =>
         (cars[1].position = ArrivalEnd <=> steps >= DefaultWidth - 1)

\* The car is on its destination at the end of tick 14.
C10_Witness ==
    /\ EndOfTick
    /\ steps = DefaultWidth - 1
    /\ cars[1].position = ArrivalEnd
    /\ cars[1].pos = <<DefaultWidth - 1, DefaultHeight \div 2>>

\* The path find_path has just returned to the first car, and the cells the
\* other cars stand on.
Planned == ev.kind = "planned"
PlannedPath == cars[1].path
Others == {cars[c].pos : c \in DOMAIN cars \ {1}}

\* A path from `from` to `to` in steps of one 4-neighbour cell each.
IsRoute(path, from, to) ==
    /\ path # <<>>
    /\ path[1] = from
    /\ path[Len(path)] = to
    /\ \A i \in 1..(Len(path) - 1) :
          Abs(path[i + 1][1] - path[i][1]) + Abs(path[i + 1][2] - path[i][2]) = 1

Manhattan(p, q) == Abs(p[1] - q[1]) + Abs(p[2] - q[2])

\* C11: with no other car on the grid, find_path returns for every
\* personality, start and destination a path from the start to the
\* destination, one 4-neighbour step at a time, of as many hops as the
\* Manhattan distance between them.
C11_ManhattanOnEmptyGrid ==
    (Planned /\ NumCars = 1) =>
        /\ IsRoute(PlannedPath, cars[1].position, cars[1].destination)
        /\ Len(PlannedPath) - 1 = Manhattan(cars[1].position, cars[1].destination)

\* A path of three hops or more with a turn in it has been planned on an
\* empty grid.
C11_Witness ==
    /\ Planned
    /\ NumCars = 1
    /\ Len(PlannedPath) >= 4
    /\ cars[1].position[1] # cars[1].destination[1]
    /\ cars[1].position[2] # cars[1].destination[2]

\* C12: no path find_path returns holds, after its first cell, a cell another
\* car stands on, light cells included.
C12_PathAvoidsCars ==
    Planned => \A i \in 2..Len(PlannedPath) : PlannedPath[i] \notin Others

\* The cells reachable from the cells of S by 4-neighbour steps through cells
\* of the grid that hold no other car.
RECURSIVE FreeReach(_)
FreeReach(S) ==
    LET T == S \cup {q \in Cells(width, height) \ Others :
                        \E p \in S : Manhattan(p, q) = 1}
    IN  IF T = S THEN S ELSE FreeReach(T)

\* The hop count of the shortest such route from the cells of S to `to`
\* (which is reachable), S being `hops` hops from the start.
RECURSIVE FreeDistance(_, _, _)
FreeDistance(S, to, hops) ==
    IF to \in S THEN hops
    ELSE FreeDistance(S \cup {q \in Cells(width, height) \ Others :
                                 \E p \in S : Manhattan(p, q) = 1}, to, hops + 1)

\* C13: find_path returns none only if no route through cells free of other
\* cars leads to the destination, and otherwise a route of minimum hop count,
\* for every personality.
C13_ShortestFreeRoute ==
    Planned =>
        IF cars[1].destination \in FreeReach({cars[1].position})
        THEN /\ IsRoute(PlannedPath, cars[1].position, cars[1].destination)
             /\ Len(PlannedPath) - 1
                  = FreeDistance({cars[1].position}, cars[1].destination, 0)
        ELSE PlannedPath = <<>>

\* C14: two runs of one configuration whose model generators are seeded alike
\* are identical after the same number of steps: the same cars (personality,
\* patience, strategies' effects, payoffs' effects) and the same metrics.
C14_Reproducible ==
    (twin.mode = "seeded" /\ twin.other.steps = steps) =>
        /\ twin.other.cars = cars
        /\ twin.other.lights = lights
        /\ twin.other.collected = collected

\* C15: an instance stepped in any interleaving with another instance goes
\* through the states it goes through when stepped alone: after the same
\* number of its own steps its cars, lights and metrics are the same.
C15_Isolated ==
    (twin.mode = "shared" /\ twin.alone.steps = steps) =>
        /\ twin.alone.cars = cars
        /\ twin.alone.lights = lights
        /\ twin.alone.collected = collected

\* C16: the traffic flow the data collector records is in [0,1], and is
\* exactly 1 whenever every scheduled car has waiting_time 0, the case of no
\* car included.
C16_FlowBound ==
    ev.kind = "collect" =>
        /\ RLeq(RInt(0), collected.traffic_flow)
        /\ RLeq(collected.traffic_flow, RInt(1))
        /\ (\A c \in DOMAIN cars : cars[c].waiting_time = 0) =>
                collected.traffic_flow = RInt(1)

\* The negotiation just made was between two cooperative cars in normal
\* state, the first with no negotiation history, and both chose yield.
CooperativeYield ==
    /\ ev'.kind = "negotiated"
    /\ cars[1].personality = "cooperative" /\ cars[1].state = "normal"
    /\ cars[2].personality = "cooperative" /\ cars[2].state = "normal"
    /\ cars[1].successful_negotiations = 0 /\ cars[1].failed_negotiations = 0
    /\ ev'.neg.my = "yield" /\ ev'.neg.other = "yield"

\* C17: in that negotiation the payoff is exactly 8, passage is granted,
\* successful_negotiations grows by 1, failed_negotiations and the risky-move
\* buffer are unchanged, and happiness becomes min(100, happiness + 8).
C17_CooperativeYieldYield ==
    [][CooperativeYield =>
        /\ ev'.neg.payoff = RInt(8)
        /\ ev'.neg.granted
        /\ cars'[1].successful_negotiations = cars[1].successful_negotiations + 1
        /\ cars'[1].failed_negotiations = cars[1].failed_negotiations
        /\ cars'[1].risky_moves_outcome = cars[1].risky_moves_outcome
        /\ cars'[1].happiness = RMin(RInt(100), RAdd(cars[1].happiness, RInt(8)))]_vars

C17_Witness ==
    /\ ev.kind = "negotiated"
    /\ cars[1].personality = "cooperative" /\ cars[1].state = "normal"
    /\ cars[2].personality = "cooperative" /\ cars[2].state = "normal"
    /\ ev.neg.my = "yield" /\ ev.neg.other = "yield"
    /\ cars[1].successful_negotiations = 1 /\ cars[1].failed_negotiations = 0
    /\ ev.neg.payoff = RInt(8)
    /\ cars[1].happiness = RInt(100)

\* C18: negotiate_passage grants exactly when the payoff is strictly positive,
\* and each call adds 1 to exactly one counter: successful_negotiations when
\* granted, failed_negotiations when denied.
C18_GrantedIffPositive ==
    [][ev'.kind = "negotiated" =>
        /\ ev'.neg.granted <=> RPos(ev'.neg.payoff)
        /\ ev'.neg.granted =>
            /\ cars'[1].successful_negotiations = cars[1].successful_negotiations + 1
            /\ cars'[1].failed_negotiations = cars[1].failed_negotiations
        /\ ~ev'.neg.granted =>
            /\ cars'[1].failed_negotiations = cars[1].failed_negotiations + 1
            /\ cars'[1].successful_negotiations = cars[1].successful_negotiations]_vars

C18_Witness ==
    /\ ev.kind = "negotiated"
    /\ ev.neg.payoff = RInt(0)
    /\ ~ev.neg.granted
    /\ cars[1].personality = "opportunistic"
    /\ ev.neg.my = "yield" /\ ev.neg.other = "push_through"
    /\ cars[1].failed_negotiations = 1

\* C19: a constructor call with width < 3 or height < 1 raises ValueError
\* whatever the requested number of cars, and leaves no light and no car.
C19_SmallGridRejected ==
    [][(ev.kind = "call" /\ (width < 3 \/ height < 1)) =>
        /\ ev'.kind = "ValueError"
        /\ lights' = <<>>
        /\ cars' = <<>>]_vars

C19_Witness ==
    /\ ev.kind = "ValueError"
    /\ width >= 3
    /\ height < 1
    /\ ev.who > 0
    /\ lights = <<>>
    /\ cars = <<>>

\* The position of the first occurrence of `cell` in `path`, counted in hops
\* from the head of the path (the car's position).
HopsTo(path, cell) ==
    (CHOOSE i \in 1..Len(path) :
        path[i] = cell /\ \A k \in 1..(i - 1) : path[k] # cell) - 1

\* C20: after a light's step, a detected car whose path holds the light's cell
\* is entered in approaching_cars with the number of hops to that cell, and a
\* detected car whose path is empty or does not hold the cell is not entered.
C20_EtaAlongPath ==
    ev.kind = "light" =>
        LET y == ev.who
            cell == LightPos(width, y)
            approaching == lights[y].approaching_cars
        IN  \A c \in get_nearby_cars(width, height, y, cars) :
                IF \E i \in 1..Len(cars[c].path) : cars[c].path[i] = cell
                THEN /\ c \in DOMAIN approaching
                     /\ approaching[c].eta = HopsTo(cars[c].path, cell)
                ELSE c \notin DOMAIN approaching

\* The car whose step has just been taken, and whether a car stepped at all.
CarStepped == ev'.who \in DOMAIN cars /\ ev'.kind \notin {"collect", "light", "advance"}

\* C21: a step that needs a path and finds none leaves the car where it is,
\* adds 1 to waiting_time, takes 5 from happiness (not below 0) and adds 3 to
\* the stress the emotional update left (not above 100); a car whose path is
\* empty at its turn, whichever failed search emptied it, searches again: its
\* step ends in that penalty exactly when there is still no route.
C21_NoPathRecoverable ==
    [][CarStepped =>
        LET c == ev'.who
            a == update_emotional_state(cars[c])
            no_route == find_path(width, height, CarCells(cars), a.personality,
                                  a.position, a.destination) = <<>>
        IN  /\ ev'.kind = "no_path" =>
                /\ cars'[c].pos = cars[c].pos
                /\ cars'[c].position = cars[c].position
                /\ cars'[c].waiting_time = cars[c].waiting_time + 1
                /\ cars'[c].happiness = RMax(RInt(0), RAdd(cars[c].happiness, RInt(-5)))
                /\ cars'[c].stress = Min2(100, a.stress + 3)
                /\ no_route
            /\ cars[c].path = <<>> => (ev'.kind = "no_path" <=> no_route)]_vars

\* A second consecutive tick without a path.
C21_Witness ==
    /\ ev.kind = "no_path"
    /\ cars[ev.who].waiting_time >= 2
    /\ cars[ev.who].path = <<>>
    /\ cars[ev.who].position # cars[ev.who].destination

\* C22: a car that, at its step, detects ahead a light other than the one it
\* tracked (or has no ETA yet) is in that light's approaching_cars after the
\* step, whatever its distance from the light.
C22_ApproachRegistered ==
    [][CarStepped =>
        LET c == ev'.who
            y == detect_traffic_light_ahead(width, height, cars[c])
        IN  (y # NoLight /\ (cars[c].approaching_light # y \/ cars[c].eta_to_light = NoEta))
                => c \in DOMAIN lights'[y].approaching_cars]_vars

\* C23: the state at the end of a tick does not depend on the order in which
\* the scheduler activates the cars: two runs of one configuration, placement
\* and stream of draws agree after the same number of ticks whatever the
\* order of activation of the second.
C23_OrderIndependent ==
    (twin.mode = "order" /\ twin.other.steps = steps) =>
        /\ twin.other.cars = cars
        /\ twin.other.lights = lights
        /\ twin.other.collected = collected

\* The cell is a light cell whose light is yellow.
YellowCell(pos) ==
    /\ pos # <<>>
    /\ HasLight(width, height, pos)
    /\ LightAt(width, lights, pos).state = "yellow"

\* The outcomes of the step of car c, when it is its turn.
StepOutcomes(c) == car_step(width, height, lights, cars, steps, c)

\* Car c is at its turn and its step takes it to the gate of a yellow light
\* whose cell holds no car.
FacesYellow(c) ==
    /\ turn = NumLights + c
    /\ \E o \in StepOutcomes(c) :
        /\ o.kind \in {"yellow", "blocked", "moved", "arrived"}
        /\ YellowCell(o.next)
        /\ o.next \notin CarCells(cars)

\* C24: a car that has just moved onto the cell of a yellow light is reckless
\* or aggressive, and a reckless or aggressive car at the gate of a yellow
\* light has an outcome of its draws under which it moves onto the cell.
C24_YellowGate ==
    /\ (ev.kind \in {"moved", "arrived"} /\ YellowCell(ev.next)) =>
            cars[ev.who].personality \in {"reckless", "aggressive"}
    /\ \A c \in DOMAIN cars :
        (FacesYellow(c) /\ cars[c].personality \in {"reckless", "aggressive"}) =>
            \E o \in StepOutcomes(c) : o.kind \in {"moved", "arrived"} /\ YellowCell(o.next)

\* The cars within Chebyshev distance 1 of the light of row y.
Detected(y) ==
    {c \in DOMAIN cars :
        /\ Abs(cars[c].pos[1] - width \div 2) <= 1
        /\ Abs(cars[c].pos[2] - y) <= 1}

C26_WaitingTimeCounts ==
    [][(CarStepped /\ cars[ev'.who].position # cars[ev'.who].destination) =>
        LET c == ev'.who
        IN  IF cars'[c].pos # cars[c].pos
            THEN cars'[c].waiting_time = 0
            ELSE cars'[c].waiting_time = cars[c].waiting_time + 1]_vars

\* C27: when the step of a car starts with the next cell of its path held by
\* another car, the step negotiates with that car, unless a red or yellow
\* light stopped it first.
C27_OccupiedNegotiates ==
    [][(CarStepped /\ Len(cars[ev'.who].path) > 1
            /\ CarIn(cars, cars[ev'.who].path[2]) # 0) =>
        \/ ev'.kind \in {"red", "yellow"}
        \/ ev'.neg.with = CarIn(cars, cars[ev'.who].path[2])]_vars

\* C28: a lost negotiation leaves the car in its cell and costs what a red
\* light costs: waiting_time + 1, happiness - 5 (not below 0) and stress + 2
\* for an aggressive car, + 1 for any other, counted from the car as the
\* negotiation left it.
C28_LostNegotiationPenalty ==
    [][(CarStepped /\ ev'.kind = "negotiation_failed") =>
        LET c == ev'.who
            a == negotiate_passage(update_emotional_state(cars[c]),
                                   ev'.neg.my, ev'.neg.other).car
        IN  /\ cars'[c].pos = cars[c].pos
            /\ cars'[c].waiting_time = a.waiting_time + 1
            /\ cars'[c].happiness = RMax(RInt(0), RAdd(a.happiness, RInt(-5)))
            /\ cars'[c].stress =
                    a.stress + (IF a.personality = "aggressive" THEN 2 ELSE 1)]_vars

\* The move from `from` to `to` brings the car nearer to `dest` along x.
AdvancesAlongX(from, to, dest) == Abs(dest[1] - to[1]) < Abs(dest[1] - from[1])

\* C29: a move (here one made without negotiation and not ending the trip,
\* so that nothing else touches happiness) adds 5 to happiness, and 2 more
\* when it advanced the car along x toward its destination, capped at 100.
C29_MoveReward ==
    [][(CarStepped /\ ev'.kind = "moved" /\ ev'.neg.with = 0) =>
        LET c == ev'.who
            bonus == IF AdvancesAlongX(cars[c].pos, cars'[c].pos, cars[c].destination)
                     THEN 7 ELSE 5
        IN  cars'[c].happiness = RMin(RInt(100), RAdd(cars[c].happiness, RInt(bonus)))]_vars

\* Two cells are 4-neighbours.
Adjacent(p, q) == Abs(p[1] - q[1]) + Abs(p[2] - q[2]) = 1

\* C30: at the end of every tick, for every car, a non-empty path starts at
\* the car's position, every two consecutive cells of the path are
\* 4-neighbours, and the car's position field is the cell the grid holds it
\* in.
C30_PathConsistent ==
    EndOfTick =>
        \A c \in DOMAIN cars :
            /\ cars[c].path # <<>> => cars[c].path[1] = cars[c].position
            /\ \A i \in 1..(Len(cars[c].path) - 1) :
                    Adjacent(cars[c].path[i], cars[c].path[i + 1])
            /\ cars[c].position = cars[c].pos

\* After some ticks a car is under way on a path with cells still ahead.
C30_Witness ==
    /\ EndOfTick
    /\ steps > 1
    /\ \E c \in DOMAIN cars :
        /\ Len(cars[c].path) > 1
        /\ cars[c].position[1] \notin {0, width - 1}
        /\ cars[c].path[1] = cars[c].position


\* A light stands in the car's lane within the lookahead range on the side of
\* its destination (west for a car bound west, east for a car bound east).
LightTowardDestination(a) ==
    LET dir == IF a.destination[1] < a.position[1] THEN -1 ELSE 1
    IN  \E dx \in 1..LightDetectionRange :
            HasLight(width, height, <<a.position[1] + dir * dx, a.position[2]>>)

\* C31: a car bound west (destination west of its position) detects at its
\* step a light iff one stands in its lane within 3 cells to the west; it never
\* detects a light that lies behind it.
C31_LookaheadWest ==
    [][CarStepped =>
        LET a == cars[ev'.who]
        IN  a.destination[1] < a.position[1]
                => (detect_traffic_light_ahead(width, height, a) # NoLight
                        <=> LightTowardDestination(a))]_vars


\* C32: in a model built with a fixed personality P, the initial patience of
\* every car is max(1, b + modifier(P)) for some base b in 3..8.
C32_PatienceOfAssigned ==
    (ev.kind = "constructed" /\ personality_type # "random")
        => \A c \in DOMAIN cars :
            \E b \in BaseLo..BaseHi :
                cars[c].patience = Max2(1, b + PatienceModifier(personality_type))


\* The stress update_emotional_state leaves: waiting_time x (2 if aggressive
\* else 1) added, clamped to 0..100, then the decay (2 if the state was happy
\* else 1) subtracted, not below 0.
StressAfter(a) ==
    LET added == a.stress + a.waiting_time * (IF a.personality = "aggressive" THEN 2 ELSE 1)
        clamped == IF added > 100 THEN 100 ELSE IF added < 0 THEN 0 ELSE added
        decayed == clamped - (IF a.state = "happy" THEN 2 ELSE 1)
    IN  IF decayed < 0 THEN 0 ELSE decayed

\* C33: after update_emotional_state the state is happy iff happiness > 80
\* and stress < 30; otherwise angry iff happiness < 30 or stress > 70;
\* otherwise impatient iff waiting_time > patience; otherwise normal, for the
\* stress the call leaves.
C33_StatePriority ==
    [][ev'.kind = "felt" =>
        LET a == cars[1]
            b == cars'[1]
            happy == RLess(RInt(80), b.happiness) /\ b.stress < 30
            angry == RLess(b.happiness, RInt(30)) \/ b.stress > 70
            impatient == b.waiting_time > b.patience
        IN  /\ b.stress = StressAfter(a)
            /\ b.happiness = a.happiness /\ b.waiting_time = a.waiting_time
            /\ (b.state = "happy") <=> happy
            /\ (b.state = "angry") <=> (~happy /\ angry)
            /\ (b.state = "impatient") <=> (~happy /\ ~angry /\ impatient)
            /\ (b.state = "normal") <=> (~happy /\ ~angry /\ ~impatient)]_vars

\* A car that was happy, at happiness 80 exactly and low stress, waited longer
\* than its patience: it is impatient, not happy.
C33_Witness ==
    /\ ev.kind = "felt"
    /\ ev.was = "happy"
    /\ cars[1].happiness = RInt(80)
    /\ cars[1].stress < 30
    /\ cars[1].state = "impatient"


\* C34: at the end of every tick the learning_rate and risk_threshold of every
\* car are the constants of its emotional state (in hundredths: angry 20/70,
\* happy 5/30, normal or impatient 10/50), also in and after the tick of its
\* arrival.
C34_ParametersOfState ==
    EndOfTick =>
        \A c \in DOMAIN cars :
            <<cars[c].learning_rate, cars[c].risk_threshold>> =
                (IF cars[c].state = "angry" THEN <<20, 70>>
                 ELSE IF cars[c].state = "happy" THEN <<5, 30>>
                 ELSE <<10, 50>>)


\* C35: the push_through and yield values a car that is not angry uses for
\* the draw of its strategy each lie in [0, 1] and sum to 1.
C35_StrategyDistribution ==
    [][ev'.kind = "negotiated" =>
        \A k \in DOMAIN cars :
            cars[k].state # "angry" =>
                LET probs == strategy_probabilities(cars[k])
                IN  /\ RLeq(RInt(0), probs.push_through) /\ RLeq(probs.push_through, RInt(1))
                    /\ RLeq(RInt(0), probs.yield) /\ RLeq(probs.yield, RInt(1))
                    /\ RAdd(probs.push_through, probs.yield) = RInt(1)]_vars


\* The last `n` entries of a sequence (all of it when it is shorter).
LastEntries(seq, n) ==
    IF Len(seq) <= n THEN seq ELSE SubSeq(seq, Len(seq) - n + 1, Len(seq))

\* C36: the risky-move buffer never holds more than 10 entries; a negotiation
\* in which the car's own strategy was push_through appends exactly one entry
\* (1 if granted, 0 if denied) and the buffer keeps the 10 most recent entries
\* in order; a negotiation in which it was yield leaves the buffer unchanged.
C36_RiskyBufferBounded ==
    [][ev'.kind = "negotiated" =>
        LET old == cars[1].risky_moves_outcome
            new == cars'[1].risky_moves_outcome
        IN  /\ Len(new) <= RiskyCap
            /\ ev'.neg.my = "push_through" =>
                new = LastEntries(old \o <<IF ev'.neg.granted THEN 1 ELSE 0>>, RiskyCap)
            /\ ev'.neg.my = "yield" => new = old]_vars

\* The car that started with ten entries has pushed through in each later
\* negotiation and was granted the last time: the buffer is still ten long,
\* the oldest entries are gone and the newest is 1.
C36_Witness ==
    /\ ev.kind = "negotiated"
    /\ steps = BufferRounds
    /\ ev.neg.my = "push_through" /\ ev.neg.granted
    /\ Len(cars[1].risky_moves_outcome) = RiskyCap
    /\ cars[1].risky_moves_outcome[RiskyCap] = 1
    /\ SubSeq(cars[1].risky_moves_outcome, 1, RiskyCap - BufferRounds) =
            [i \in 1..(RiskyCap - BufferRounds) |-> IF (i + BufferRounds) % 3 = 0 THEN 1 ELSE 0]


C38_NegotiationNeverMoves ==
    [][(CarStepped /\ ev'.neg.with # 0) =>
        /\ cars'[ev'.who].pos = cars[ev'.who].pos
        /\ cars'[ev'.who].position = cars[ev'.who].position
        /\ cars'[ev'.who].waiting_time = cars[ev'.who].waiting_time + 1]_vars

\* A car was granted passage and is still where it was, blocked by the car it
\* negotiated with.
C38_Witness ==
    /\ ev.kind = "blocked"
    /\ ev.neg.with # 0
    /\ ev.neg.granted
    /\ cars[ev.who].pos = ev.from
    /\ cars[ev.neg.with].pos = ev.next
    /\ cars[ev.who].waiting_time > 0


\* C39: the payoff of a negotiation is strictly positive, and passage is
\* granted, exactly when the entry of the personality's base matrix for the
\* two strategies is strictly positive, whatever the emotional state and the
\* negotiation history of the car.
C39_SignOfBaseEntry ==
    [][ev'.kind = "negotiated" =>
        LET base == PayoffMatrix(cars[1].personality, ev'.neg.my, ev'.neg.other)[1]
        IN  /\ RPos(ev'.neg.payoff) <=> base > 0
            /\ ev'.neg.granted <=> base > 0
            /\ (base = 0) <=> (ev'.neg.payoff = RInt(0))]_vars

\* A happy car with a negotiation history pushed through against a yielding
\* car: the payoff is below the base entry and passage is granted all the same.
C39_Witness ==
    /\ ev.kind = "negotiated"
    /\ cars[1].state = "happy"
    /\ ev.neg.my = "push_through" /\ ev.neg.other = "yield"
    /\ cars[1].failed_negotiations > 0
    /\ cars[1].successful_negotiations > 1
    /\ ev.neg.granted
    /\ RLess(ev.neg.payoff,
             RInt(PayoffMatrix(cars[1].personality, ev.neg.my, ev.neg.other)[1]))

====
